---- MODULE Spec2Model ----
(***************************************************************************)
(* FITRON rep tracking and auto-regulation: the rep_logs table, the        *)
(* handlers of backend/app/api/rep_tracking.py that write it, the risk     *)
(* assessment and safety-override handlers of                              *)
(* backend/app/api/auto_regulation.py that read it, the account update of  *)
(* backend/app/api/auth.py, the rep analysis and the joint angles of       *)
(* backend/app/services/pose_estimation.py, the workout insights of        *)
(* backend/app/core/rep_analyzer.py and the message analysis of            *)
(* backend/app/services/chat_service.py.                                   *)
(***************************************************************************)
EXTENDS Integers, Sequences, FiniteSets, TLC

(***************************************************************************)
(* Bounds of the model.                                                    *)
(***************************************************************************)
MaxReps == 2
MaxRequests == 2
MaxWindow == 30
MaxFrames == 21
MaxAnalyses == 3
MaxDays == 9
MaxSessions == 1
MaxExchanges == 2

(***************************************************************************)
(* Program constants.                                                      *)
(***************************************************************************)
WINDOW_DAYS == 30
HTTP_200_OK == 200
HTTP_201_CREATED == 201
HTTP_403_FORBIDDEN == 403
HTTP_404_NOT_FOUND == 404
HTTP_500_INTERNAL_SERVER_ERROR == 500
FRAMES_PER_REP == 10
LEFT_SHOULDER == 11
LEFT_HIP == 23
LEFT_KNEE == 25
LEFT_ANKLE == 27
TREND_WINDOW == 7
TREND_THRESHOLD == 100
DEFAULT_DAYS == 30
ALERT_DAYS == 7
MIN_TREND_REPS == 5

Users == {1, 2}
ProUsers == {1}
Weights == {60, 90}
\* the days on which requests arrive: the first day, the last day on which a
\* rep of the first day is inside the window, and the day after
Days == {0, WINDOW_DAYS, WINDOW_DAYS + 1}
Reasons == {"experienced lifter", "trainer present"}

VARIABLES
    rep_logs,           \* the rep_logs table: a set of RepLog rows
    next_rep_id,        \* the table's next autoincrement id
    now,                \* datetime.utcnow(), in days
    is_pro_user,        \* User.is_pro_user of every user
    override_requests,  \* POST /override-lock requests: id -> request and its answer
    logger,             \* what logger.info has recorded about overrides, in order
    response,           \* the answer of the handler that ran last
    analysis_request,   \* the frames and exercise type handed to the pose service
    analyses,           \* the analyses the pose service has returned, in order
    landmarks,          \* the landmarks of one frame: landmark id -> point
    angles,             \* the joint angles computed from the landmarks
    chat_request,       \* the chat request the chat service is handed
    chat_session,       \* the session object of the chat exchange processed last
    chat_sessions       \* the chat_sessions collection, in the order of insertion

vars == <<rep_logs, next_rep_id, now, is_pro_user, override_requests,
          logger, response, analysis_request, analyses,
          landmarks, angles, chat_request, chat_session, chat_sessions>>

\* the state of the chat service
chat_vars == <<chat_request, chat_session, chat_sessions>>

\* the state of the joint-angle calculation
geometry_vars == <<landmarks, angles>>

\* the state of the pose analysis, which no handler of the rep table touches
pose_vars == <<analysis_request, analyses>>

NoResponse == [op |-> "none"]

(***************************************************************************)
(* A RepLog row as log_rep constructs it.  log_rep copies every kinematic  *)
(* field of the request (set_number, rep_number, weight_kg,                *)
(* duration_seconds, velocity_mps, range_of_motion_degrees,                *)
(* pose_confidence) in the same way; weight_kg stands for them.  The       *)
(* label flags are not passed to the constructor and take the column       *)
(* default.                                                                *)
(***************************************************************************)
RepLogDefaults == [is_ego_lifting |-> FALSE, is_locked |-> FALSE]

RepLog(id, user_id, weight_kg, created_at) ==
    [id |-> id, user_id |-> user_id, weight_kg |-> weight_kg,
     is_ego_lifting |-> RepLogDefaults.is_ego_lifting,
     is_locked |-> RepLogDefaults.is_locked,
     created_at |-> created_at]

\* the attributes of a RepLog row that a request body of update_rep may name
\* (id is one more: no request body of this model names it)
RepLogAttributes == {"user_id", "weight_kg", "is_ego_lifting", "is_locked"}

\* request bodies of update_rep: a dict of one item.  The value is a weight
\* or a flag as the field asks, or None (is_none, the value then ignored).
RepUpdates ==
    {[field |-> "weight_kg", is_none |-> FALSE, value |-> w] : w \in Weights}
    \cup {[field |-> f, is_none |-> FALSE, value |-> b] :
              f \in {"is_ego_lifting", "is_locked"}, b \in BOOLEAN}
    \cup {[field |-> "weight_kg", is_none |-> TRUE, value |-> 0],
          [field |-> "no_such_attribute", is_none |-> FALSE, value |-> 0]}

\* request bodies of update_rep that name the owner of the rep
OwnerUpdates ==
    {[field |-> "user_id", is_none |-> FALSE, value |-> u] : u \in Users}

\* hasattr(rep, field)
hasattr(rep, field) == field \in RepLogAttributes

\* select(RepLog).where(RepLog.id == rep_id, RepLog.user_id == current_user.id)
select_rep(rep_id, current_user) ==
    {rep \in rep_logs : rep.id = rep_id /\ rep.user_id = current_user}

\* setattr(rep, field, value)
setattr(rep, field, value) ==
    IF field = "weight_kg" THEN [rep EXCEPT !.weight_kg = value]
    ELSE IF field = "user_id" THEN [rep EXCEPT !.user_id = value]
    ELSE IF field = "is_ego_lifting" THEN [rep EXCEPT !.is_ego_lifting = value]
    ELSE IF field = "is_locked" THEN [rep EXCEPT !.is_locked = value]
    ELSE rep

(***************************************************************************)
(* get_ego_lifting_status: the risk assessment over the caller's reps of   *)
(* the last WINDOW_DAYS days.                                              *)
(***************************************************************************)
recent_reps(current_user, utcnow) ==
    {rep \in rep_logs : /\ rep.user_id = current_user
                        /\ rep.created_at >= utcnow - WINDOW_DAYS}

\* The body of the handler on the rows the query returned.  With no rows it
\* returns the fixed low-risk answer.  With rows, the conditional expression
\* that computes locked_percentage tests the name total_reeps, which is bound
\* nowhere: evaluating it raises NameError, the handler's except clause
\* catches it and answers 500 before any score or tier is computed.
ego_lifting_status(reps) ==
    IF reps = {}
    THEN [status_code |-> HTTP_200_OK,
          ego_lifting_risk |-> "low",
          risk_score |-> 0,
          locked_reps_count |-> 0,
          is_plan_locked |-> FALSE]
    ELSE [status_code |-> HTTP_500_INTERNAL_SERVER_ERROR,
          detail |-> "Failed to get ego-lifting status"]

Answer(op, current_user, body) ==
    [op |-> op, user |-> current_user, body |-> body]

\* an assessment that writes its lock decision into the rows it has read
get_ego_lifting_status_locking(current_user) ==
    /\ response' = Answer("get_ego_lifting_status", current_user,
                          ego_lifting_status(recent_reps(current_user, now)))
    /\ rep_logs' = {IF rep \in recent_reps(current_user, now) /\ rep.is_ego_lifting
                    THEN [rep EXCEPT !.is_locked = TRUE]
                    ELSE rep : rep \in rep_logs}
    /\ UNCHANGED <<pose_vars, geometry_vars, chat_vars, next_rep_id, now, is_pro_user,
                   override_requests, logger>>

get_ego_lifting_status(current_user) ==
    /\ response' = Answer("get_ego_lifting_status", current_user,
                          ego_lifting_status(recent_reps(current_user, now)))
    /\ UNCHANGED <<pose_vars, geometry_vars, chat_vars, rep_logs, next_rep_id, now, is_pro_user,
                   override_requests, logger>>

(***************************************************************************)
(* The handlers of rep_tracking.py that write the table.                   *)
(***************************************************************************)
log_rep(current_user, weight_kg) ==
    /\ next_rep_id <= MaxReps
    /\ LET db_rep == RepLog(next_rep_id, current_user, weight_kg, now)
       IN  /\ rep_logs' = rep_logs \cup {db_rep}
           /\ response' = Answer("log_rep", current_user,
                                 [status_code |-> HTTP_201_CREATED, rep |-> db_rep])
    /\ next_rep_id' = next_rep_id + 1
    /\ UNCHANGED <<pose_vars, geometry_vars, chat_vars, now, is_pro_user, override_requests, logger>>

get_rep_detail(current_user, rep_id) ==
    /\ response' = Answer("get_rep_detail", current_user,
                          IF select_rep(rep_id, current_user) = {}
                          THEN [status_code |-> HTTP_404_NOT_FOUND,
                                detail |-> "Rep not found"]
                          ELSE [status_code |-> HTTP_200_OK,
                                rep |-> CHOOSE rep \in select_rep(rep_id, current_user) : TRUE])
    /\ UNCHANGED <<pose_vars, geometry_vars, chat_vars, rep_logs, next_rep_id, now,
                   is_pro_user, override_requests, logger>>

update_rep(current_user, rep_id, rep_update) ==
    \/ /\ select_rep(rep_id, current_user) = {}
       /\ response' = Answer("update_rep", current_user,
                             [status_code |-> HTTP_404_NOT_FOUND, detail |-> "Rep not found"])
       /\ UNCHANGED <<pose_vars, geometry_vars, chat_vars, rep_logs, next_rep_id, now, is_pro_user,
                      override_requests, logger>>
    \/ \E rep \in select_rep(rep_id, current_user) :
          LET patched == IF hasattr(rep, rep_update.field) /\ ~rep_update.is_none
                         THEN setattr(rep, rep_update.field, rep_update.value)
                         ELSE rep
          IN  /\ rep_logs' = (rep_logs \ {rep}) \cup {patched}
              /\ response' = Answer("update_rep", current_user,
                                    [status_code |-> HTTP_200_OK, rep |-> patched])
              /\ UNCHANGED <<pose_vars, geometry_vars, chat_vars, next_rep_id, now, is_pro_user,
                             override_requests, logger>>

delete_rep(current_user, rep_id) ==
    \/ /\ select_rep(rep_id, current_user) = {}
       /\ response' = Answer("delete_rep", current_user,
                             [status_code |-> HTTP_404_NOT_FOUND, detail |-> "Rep not found"])
       /\ UNCHANGED <<pose_vars, geometry_vars, chat_vars, rep_logs, next_rep_id, now, is_pro_user,
                      override_requests, logger>>
    \/ \E rep \in select_rep(rep_id, current_user) :
          /\ rep_logs' = rep_logs \ {rep}
          /\ response' = Answer("delete_rep", current_user,
                                [status_code |-> HTTP_200_OK,
                                 message |-> "Rep deleted successfully"])
          /\ UNCHANGED <<pose_vars, geometry_vars, chat_vars, next_rep_id, now, is_pro_user,
                         override_requests, logger>>

(***************************************************************************)
(* override_safety_lock.  Requests are sent by clients and wait in flight  *)
(* until the event loop runs the handler for one of them; the handler body *)
(* has no await, so it runs as one step.  override_requests keeps every    *)
(* request in the order sent, with the position of its sending and of its  *)
(* answer among the override events (answered_at = 0 while in flight).     *)
(***************************************************************************)
InFlight == {rid \in DOMAIN override_requests : override_requests[rid].answered_at = 0}

Answered == DOMAIN override_requests \ InFlight

OverrideEvents == Len(override_requests) + Cardinality(Answered)

OverrideRequest(current_user, reason) ==
    /\ Len(override_requests) < MaxRequests
    /\ override_requests' = Append(override_requests,
           [user_id |-> current_user, reason |-> reason,
            sent_at |-> OverrideEvents + 1, answered_at |-> 0,
            answer |-> NoResponse])
    /\ response' = NoResponse
    /\ UNCHANGED <<pose_vars, geometry_vars, chat_vars, rep_logs, next_rep_id, now, is_pro_user, logger>>

\* the check of is_pro_user left out
may_override_anyone(current_user) == TRUE

\* if not current_user.is_pro_user: raise HTTPException(403)
may_override(current_user) == is_pro_user[current_user]

\* logger.info(f"Safety override requested by user {current_user.id}: {reason}")
log_override(current_user, reason) ==
    Append(logger, [user_id |-> current_user, reason |-> reason])

\* an answer that reports a request superseded when the user has one logged
override_submitted_once(current_user, reason) ==
    [status_code |-> HTTP_200_OK,
     message |-> "Override request submitted for trainer approval",
     override_id |-> "override_123",
     status |-> IF \E k \in DOMAIN logger : logger[k].user_id = current_user
                THEN "superseded"
                ELSE "pending_approval"]

\* the handler's return value for a Pro user: the same for every request
override_submitted(current_user, reason) ==
    [status_code |-> HTTP_200_OK,
     message |-> "Override request submitted for trainer approval",
     override_id |-> "override_123",
     status |-> "pending_approval"]

\* an override that lifts the lock from the user's reps
reps_unlocked_by_override(current_user) ==
    {IF rep.user_id = current_user THEN [rep EXCEPT !.is_locked = FALSE] ELSE rep :
        rep \in rep_logs}

\* the rep_logs table after the handler: it issues no statement on db
reps_after_override(current_user) == rep_logs

override_safety_lock(rid) ==
    /\ rid \in InFlight
    /\ LET current_user == override_requests[rid].user_id
           reason == override_requests[rid].reason
           body == IF may_override(current_user)
                   THEN override_submitted(current_user, reason)
                   ELSE [status_code |-> HTTP_403_FORBIDDEN,
                         detail |-> "Pro subscription required for safety overrides"]
       IN  /\ logger' = IF may_override(current_user)
                        THEN log_override(current_user, reason)
                        ELSE logger
           /\ rep_logs' = IF may_override(current_user)
                          THEN reps_after_override(current_user)
                          ELSE rep_logs
           /\ override_requests' =
                 [override_requests EXCEPT ![rid].answer = body,
                                           ![rid].answered_at = OverrideEvents + 1]
           /\ response' = Answer("override_safety_lock", current_user, body)
    /\ UNCHANGED <<pose_vars, geometry_vars, chat_vars, next_rep_id, now, is_pro_user>>

(***************************************************************************)
(* _calculate_joint_angles and _calculate_angle                            *)
(* (backend/app/services/pose_estimation.py).  A landmark is a point       *)
(* (x, y, z) on a small grid, or a point with a NaN coordinate.  The angle *)
(* at a joint is the arc cosine of                                         *)
(*     dot(ba, bc) / (norm(ba) * norm(bc)),                                *)
(* clipped to [-1, 1] and turned into degrees; arc cosine is one-to-one on *)
(* [-1, 1], so an angle is kept as the dot product and the product of the  *)
(* squared norms that determine it.  left_knee and left_hip stand for the  *)
(* four angles of the function, which are computed alike.                  *)
(***************************************************************************)
Points == [x : 0..2, y : 0..1, z : 0..1, nan : {FALSE}]

NaNPoint == [x |-> 0, y |-> 0, z |-> 0, nan |-> TRUE]

LandmarkIds == {LEFT_SHOULDER, LEFT_HIP, LEFT_KNEE, LEFT_ANKLE}

\* the landmarks each joint angle is computed from: point1, vertex, point3
AngleLandmarks ==
    [left_knee |-> <<LEFT_HIP, LEFT_KNEE, LEFT_ANKLE>>,
     left_hip |-> <<LEFT_SHOULDER, LEFT_HIP, LEFT_KNEE>>]

NaN == [kind |-> "nan", dot |-> 0, norms |-> 0]

\* np.degrees(np.arccos(np.clip(dot / sqrt(norms), -1.0, 1.0)))
Degrees(dot, norms) == [kind |-> "degrees", dot |-> dot, norms |-> norms]

\* The angle at point2 between point1 and point3, from the x and y of the
\* points.  With a NaN coordinate every intermediate value is NaN.  When
\* point1 or point3 has the x and y of point2, the division is 0.0 / 0.0:
\* numpy gives nan and a RuntimeWarning, no exception, so the except clause
\* that returns 0.0 is not entered.
_calculate_angle(point1, point2, point3) ==
    LET bax == point1.x - point2.x
        bay == point1.y - point2.y
        bcx == point3.x - point2.x
        bcy == point3.y - point2.y
        norms == (bax * bax + bay * bay) * (bcx * bcx + bcy * bcy)
    IN  IF point1.nan \/ point2.nan \/ point3.nan \/ norms = 0
        THEN NaN
        ELSE Degrees(bax * bcx + bay * bcy, norms)

\* the angles dict: a joint is in it when its three landmarks are in landmarks
joint_angles(detected) ==
    [joint \in {j \in DOMAIN AngleLandmarks :
                   \A k \in 1..3 : AngleLandmarks[j][k] \in DOMAIN detected} |->
        _calculate_angle(detected[AngleLandmarks[joint][1]],
                         detected[AngleLandmarks[joint][2]],
                         detected[AngleLandmarks[joint][3]])]

NoLandmarks == <<>>

NotCalculated == [calculated |-> FALSE, joint |-> <<>>]

_calculate_joint_angles ==
    /\ ~angles.calculated
    /\ angles' = [calculated |-> TRUE, joint |-> joint_angles(landmarks)]
    /\ UNCHANGED <<landmarks, chat_vars, pose_vars, rep_logs, next_rep_id, now,
                   is_pro_user, override_requests, logger, response>>

(***************************************************************************)
(* The chat service of backend/app/services/chat_service.py.  A message is *)
(* a sequence of characters.  A ChatSession is kept with the number of its *)
(* messages in place of the messages, and without its timestamps.          *)
(***************************************************************************)
injury_keywords ==
    <<[risk_level |-> "critical",
      keywords |->
         <<<<"t", "e", "a", "r">>,
           <<"r", "u", "p", "t", "u", "r", "e">>,
           <<"b", "r", "o", "k", "e", "n">>,
           <<"f", "r", "a", "c", "t", "u", "r", "e">>,
           <<"d", "i", "s", "l", "o", "c", "a", "t", "i", "o", "n">>,
           <<"s", "e", "v", "e", "r", "e", " ", "p", "a", "i", "n">>,
           <<"c", "a", "n", "'", "t", " ", "m", "o", "v", "e">>>>],
     [risk_level |-> "high",
      keywords |->
         <<<<"s", "h", "a", "r", "p", " ", "p", "a", "i", "n">>,
           <<"s", "t", "a", "b", "b", "i", "n", "g">>,
           <<"b", "u", "r", "n", "i", "n", "g">>,
           <<"n", "u", "m", "b", "n", "e", "s", "s">>,
           <<"t", "i", "n", "g", "l", "i", "n", "g">>,
           <<"s", "w", "e", "l", "l", "i", "n", "g">>,
           <<"b", "r", "u", "i", "s", "i", "n", "g">>>>],
     [risk_level |-> "medium",
      keywords |->
         <<<<"p", "a", "i", "n">>,
           <<"h", "u", "r", "t">>,
           <<"s", "o", "r", "e">>,
           <<"a", "c", "h", "e">>,
           <<"s", "t", "i", "f", "f">>,
           <<"t", "i", "g", "h", "t">>,
           <<"u", "n", "c", "o", "m", "f", "o", "r", "t", "a", "b", "l", "e">>,
           <<"d", "i", "s", "c", "o", "m", "f", "o", "r", "t">>>>],
     [risk_level |-> "low",
      keywords |->
         <<<<"t", "i", "r", "e", "d">>,
           <<"f", "a", "t", "i", "g", "u", "e">>,
           <<"w", "e", "a", "k">>,
           <<"s", "l", "i", "g", "h", "t">>,
           <<"m", "i", "n", "o", "r">>,
           <<"m", "i", "l", "d">>>>]>>

video_triggers ==
    <<<<"u", "p", "l", "o", "a", "d", " ", "v", "i", "d", "e", "o">>,
      <<"s", "e", "n", "d", " ", "v", "i", "d", "e", "o">>,
      <<"r", "e", "c", "o", "r", "d">>,
      <<"f", "o", "r", "m", " ", "c", "h", "e", "c", "k">>,
      <<"c", "h", "e", "c", "k", " ", "f", "o", "r", "m">>,
      <<"v", "i", "d", "e", "o", " ", "a", "n", "a", "l", "y", "s", "i", "s">>,
      <<"p", "o", "s", "e", " ", "a", "n", "a", "l", "y", "s", "i", "s">>,
      <<"f", "o", "r", "m", " ", "a", "n", "a", "l", "y", "s", "i", "s">>>>

goal_triggers ==
    <<<<"p", "r", "o", "g", "r", "e", "s", "s">>,
      <<"g", "o", "a", "l">>,
      <<"c", "l", "o", "s", "e", "r", " ", "t", "o">>,
      <<"h", "o", "w", " ", "a", "m", " ", "i", " ", "d", "o", "i", "n", "g">>,
      <<"a", "m", " ", "i", " ", "m", "a", "k", "i", "n", "g", " ", "p", "r", "o", "g", "r", "e", "s", "s">>,
      <<"s", "a", "l", "m", "a", "n", " ", "k", "h", "a", "n">>,
      <<"c", "e", "l", "e", "b", "r", "i", "t", "y">>,
      <<"p", "h", "y", "s", "i", "q", "u", "e">>,
      <<"a", "r", "m", "s">>,
      <<"s", "h", "o", "u", "l", "d", "e", "r", "s">>,
      <<"c", "h", "e", "s", "t">>>>

plan_adjustment_triggers ==
    <<[adjustment_type |-> "travel",
      keywords |->
         <<<<"t", "r", "a", "v", "e", "l">>,
           <<"t", "r", "i", "p">>,
           <<"v", "a", "c", "a", "t", "i", "o", "n">>,
           <<"h", "o", "t", "e", "l">>,
           <<"a", "w", "a", "y">>,
           <<"b", "u", "s", "i", "n", "e", "s", "s", " ", "t", "r", "i", "p">>>>],
     [adjustment_type |-> "injury",
      keywords |->
         <<<<"i", "n", "j", "u", "r", "y">>,
           <<"h", "u", "r", "t">>,
           <<"p", "a", "i", "n">>,
           <<"r", "e", "c", "o", "v", "e", "r", "y">>,
           <<"r", "e", "s", "t">>,
           <<"h", "e", "a", "l">>>>],
     [adjustment_type |-> "no_gym",
      keywords |->
         <<<<"n", "o", " ", "g", "y", "m">>,
           <<"h", "o", "m", "e", " ", "w", "o", "r", "k", "o", "u", "t">>,
           <<"n", "o", " ", "e", "q", "u", "i", "p", "m", "e", "n", "t">>,
           <<"l", "i", "m", "i", "t", "e", "d", " ", "e", "q", "u", "i", "p", "m", "e", "n", "t">>>>],
     [adjustment_type |-> "time_constraint",
      keywords |->
         <<<<"b", "u", "s", "y">>,
           <<"s", "h", "o", "r", "t", " ", "t", "i", "m", "e">>,
           <<"q", "u", "i", "c", "k", " ", "w", "o", "r", "k", "o", "u", "t">>,
           <<"t", "i", "m", "e", " ", "l", "i", "m", "i", "t">>>>],
     [adjustment_type |-> "weather",
      keywords |->
         <<<<"r", "a", "i", "n">>,
           <<"w", "e", "a", "t", "h", "e", "r">>,
           <<"o", "u", "t", "d", "o", "o", "r">>,
           <<"i", "n", "d", "o", "o", "r">>>>]>>

goal_keywords ==
    <<<<"s", "a", "l", "m", "a", "n", " ", "k", "h", "a", "n">>,
      <<"a", "r", "m", "s">>,
      <<"s", "h", "o", "u", "l", "d", "e", "r", "s">>,
      <<"c", "h", "e", "s", "t">>,
      <<"p", "h", "y", "s", "i", "q", "u", "e">>>>

ascii_uppercase ==
    <<"A", "B", "C", "D", "E", "F", "G", "H", "I", "J", "K", "L", "M",
      "N", "O", "P", "Q", "R", "S", "T", "U", "V", "W", "X", "Y", "Z">>

ascii_lowercase ==
    <<"a", "b", "c", "d", "e", "f", "g", "h", "i", "j", "k", "l", "m",
      "n", "o", "p", "q", "r", "s", "t", "u", "v", "w", "x", "y", "z">>

\* c.lower() of one character
lower_case(c) ==
    IF \E i \in 1..Len(ascii_uppercase) : ascii_uppercase[i] = c
    THEN ascii_lowercase[CHOOSE i \in 1..Len(ascii_uppercase) : ascii_uppercase[i] = c]
    ELSE c

\* message.lower()
lower(message) == [i \in 1..Len(message) |-> lower_case(message[i])]

\* keyword in message: the keyword is a substring of the message
contains(message, keyword) ==
    \E i \in 1..(Len(message) - Len(keyword) + 1) :
        SubSeq(message, i, i + Len(keyword) - 1) = keyword

\* any(keyword in message_lower for keyword in keywords)
any_keyword(message_lower, keywords) ==
    \E k \in 1..Len(keywords) : contains(message_lower, keywords[k])

\* the rows of a keyword table that have a keyword in the message
rows_in(message_lower, rows) ==
    {r \in 1..Len(rows) : any_keyword(message_lower, rows[r].keywords)}

\* the row the loop over a keyword table breaks at
first_row(found) == CHOOSE r \in found : \A other \in found : r <= other

\* the last row of the table that has a keyword in the message
last_row(found) == CHOOSE r \in found : \A other \in found : r >= other

\* an analysis that goes on to the last level with a keyword in the message
_analyze_message_without_break(message) ==
    LET message_lower == lower(message)
        risks == rows_in(message_lower, injury_keywords)
        adjustments == rows_in(message_lower, plan_adjustment_triggers)
        risk_level == IF risks = {} THEN "None"
                      ELSE injury_keywords[last_row(risks)].risk_level
    IN  [injury_risk |-> risk_level,
         escalation_suggested |-> risk_level \in {"critical", "high"},
         video_upload_requested |-> any_keyword(message_lower, video_triggers),
         plan_adjustment |->
             IF adjustments = {} THEN "None"
             ELSE plan_adjustment_triggers[first_row(adjustments)].adjustment_type,
         goal_progress |-> any_keyword(message_lower, goal_triggers)]

\* goal_progress is kept as whether the dummy goal progress was attached
_analyze_message(message) ==
    LET message_lower == lower(message)
        risks == rows_in(message_lower, injury_keywords)
        adjustments == rows_in(message_lower, plan_adjustment_triggers)
        risk_level == IF risks = {} THEN "None"
                      ELSE injury_keywords[first_row(risks)].risk_level
    IN  [injury_risk |-> risk_level,
         escalation_suggested |-> risk_level \in {"critical", "high"},
         video_upload_requested |-> any_keyword(message_lower, video_triggers),
         plan_adjustment |->
             IF adjustments = {} THEN "None"
             ELSE plan_adjustment_triggers[first_row(adjustments)].adjustment_type,
         goal_progress |-> any_keyword(message_lower, goal_triggers)]

\* request.user_id of a request without user: None
NoUserId == "None"

ChatSession(user_id, session_id) ==
    [user_id |-> user_id, session_id |-> session_id, messages |-> 0,
     injury_flags |-> <<>>, escalation_count |-> 0, goal_mentions |-> <<>>,
     plan_adjustments |-> <<>>]

NoSession == ChatSession(NoUserId, 0)

ChatRequest(message, user_id) == [message |-> message, user_id |-> user_id]

NoRequest == ChatRequest(<<>>, NoUserId)

\* collection.find_one({"user_id": user_id}): the places of the user's sessions
\* in the collection (the code never stores two sessions of one user)
find(user_id) == {i \in 1..Len(chat_sessions) : chat_sessions[i].user_id = user_id}

\* The session _get_or_create_session returns: the stored session of the user,
\* or a new session, which it inserts.  The session id is a fresh uuid, here
\* the place of the session in the collection.
_get_or_create_session(user_id) ==
    IF user_id # NoUserId /\ find(user_id) # {}
    THEN chat_sessions[CHOOSE i \in find(user_id) : TRUE]
    ELSE ChatSession(user_id, Len(chat_sessions) + 1)

RECURSIVE extend_new(_, _, _)
\* for keyword in keywords: if keyword in message_lower and keyword not in
\* flags: flags.append(keyword)
extend_new(flags, keywords, message_lower) ==
    IF keywords = <<>> THEN flags
    ELSE LET keyword == Head(keywords)
             found == /\ contains(message_lower, keyword)
                      /\ \A i \in 1..Len(flags) : flags[i] # keyword
         IN  extend_new(IF found THEN Append(flags, keyword) ELSE flags,
                        Tail(keywords), message_lower)

RECURSIVE all_keywords(_)
\* the keywords of the rows of a table, in the order of the table
all_keywords(rows) ==
    IF rows = <<>> THEN <<>> ELSE Head(rows).keywords \o all_keywords(Tail(rows))

\* the session as _update_session leaves it before it saves it
updated_session(session, user_message, analysis) ==
    LET message_lower == lower(user_message)
    IN  [session EXCEPT
            !.messages = @ + 2,
            !.injury_flags =
                IF analysis.injury_risk # "None"
                THEN extend_new(@, all_keywords(injury_keywords), message_lower)
                ELSE @,
            !.escalation_count = IF analysis.escalation_suggested THEN @ + 1 ELSE @,
            !.goal_mentions =
                IF analysis.goal_progress
                THEN extend_new(@, goal_keywords, message_lower)
                ELSE @,
            !.plan_adjustments =
                IF /\ analysis.plan_adjustment # "None"
                   /\ \A i \in 1..Len(@) : @[i] # analysis.plan_adjustment
                THEN Append(@, analysis.plan_adjustment)
                ELSE @]

\* a client sends a chat request
Chat(request) ==
    /\ chat_request' = request
    /\ UNCHANGED <<chat_session, chat_sessions, pose_vars, geometry_vars, rep_logs,
                   next_rep_id, now, is_pro_user, override_requests, logger, response>>

(***************************************************************************)
(* process_chat_message.  Without a database (get_mongo_db returns None    *)
(* before init_db has connected) the first use of db raises and the        *)
(* handler answers its fixed reply.  Otherwise the session is found or     *)
(* inserted, the message analysed, the session updated and saved with      *)
(* update_one({"_id": session.dict().get("_id")}, ...): whether that       *)
(* filter finds the stored session depends on the ChatSession model        *)
(* (app/models/chat.py), so the save either replaces the stored session or *)
(* changes nothing.                                                        *)
(***************************************************************************)
process_chat_message(connected, matched) ==
    /\ chat_request # NoRequest
    /\ IF ~connected
       THEN /\ response' = Answer("process_chat_message", chat_request.user_id,
                                  [reply |-> "technical difficulties",
                                   context_length |-> 0,
                                   injury_risk |-> "None",
                                   escalation_suggested |-> FALSE,
                                   video_upload_requested |-> FALSE,
                                   plan_adjustment |-> "None",
                                   goal_progress |-> FALSE])
            /\ UNCHANGED <<chat_session, chat_sessions>>
       ELSE LET session == _get_or_create_session(chat_request.user_id)
                inserted == IF session.session_id > Len(chat_sessions)
                            THEN Append(chat_sessions, session)
                            ELSE chat_sessions
                analysis == _analyze_message(chat_request.message)
                updated == updated_session(session, chat_request.message, analysis)
            IN  /\ session.session_id <= MaxSessions
                /\ session.messages < 2 * MaxExchanges
                /\ chat_session' = updated
                /\ chat_sessions' = IF matched
                                    THEN [inserted EXCEPT ![session.session_id] = updated]
                                    ELSE inserted
                /\ response' = Answer("process_chat_message", chat_request.user_id,
                                      [reply |-> "ai_response",
                                       context_length |-> updated.messages + 2,
                                       injury_risk |-> analysis.injury_risk,
                                       escalation_suggested |-> analysis.escalation_suggested,
                                       video_upload_requested |->
                                           analysis.video_upload_requested,
                                       plan_adjustment |-> analysis.plan_adjustment,
                                       goal_progress |-> analysis.goal_progress])
    /\ UNCHANGED <<chat_request, pose_vars, geometry_vars, rep_logs, next_rep_id, now,
                   is_pro_user, override_requests, logger>>

NoSessions == <<>>

(***************************************************************************)
(* update_current_user (backend/app/api/auth.py): the same patch loop as   *)
(* update_rep, on the caller's User row.  is_pro_user is the attribute of  *)
(* the row that this model keeps.                                          *)
(***************************************************************************)
UserAttributes == {"is_pro_user"}

\* request bodies of update_current_user: a dict of one item
UserUpdates ==
    {[field |-> "is_pro_user", is_none |-> FALSE, value |-> b] : b \in BOOLEAN}
    \cup {[field |-> "is_pro_user", is_none |-> TRUE, value |-> FALSE],
          [field |-> "no_such_attribute", is_none |-> FALSE, value |-> FALSE]}

update_current_user(current_user, user_update) ==
    /\ is_pro_user' = IF user_update.field \in UserAttributes /\ ~user_update.is_none
                      THEN [is_pro_user EXCEPT ![current_user] = user_update.value]
                      ELSE is_pro_user
    /\ response' = Answer("update_current_user", current_user,
                          [status_code |-> HTTP_200_OK])
    /\ UNCHANGED <<pose_vars, geometry_vars, chat_vars, rep_logs, next_rep_id, now, override_requests, logger>>

(***************************************************************************)
(* PoseEstimationService.analyze_rep_sequence                              *)
(* (backend/app/services/pose_estimation.py).  A frame is what detect_pose *)
(* makes of it: no pose (None), or a PoseData with a confidence and joint  *)
(* angles.  Confidences are hundredths and are multiples of a quarter, so  *)
(* that the floating-point sum of a sequence is exact; left_knee is the    *)
(* knee angle in degrees.  A form score is the fraction num / den.         *)
(***************************************************************************)
Confidences == {0, 25, 50, 75, 100}
ExerciseTypes == {"squat", "yoga"}
\* the load on the bar, in percent of the lifter's rolling average load
LoadPcts == {100, 150}
\* the knee angle at lockout and at the bottom of a rep
LOCKOUT == 170
BOTTOM == 70

PoseData(confidence, left_knee) ==
    [detected |-> TRUE, confidence |-> confidence, left_knee |-> left_knee]

\* detect_pose found no landmarks in the frame
NoPose == [detected |-> FALSE, confidence |-> 0, left_knee |-> 0]

\* pose_data_sequence: the poses of the frames in which one was detected
RECURSIVE pose_data_sequence(_)
pose_data_sequence(frames) ==
    IF frames = <<>> THEN <<>>
    ELSE IF Head(frames).detected
         THEN <<Head(frames)>> \o pose_data_sequence(Tail(frames))
         ELSE pose_data_sequence(Tail(frames))

\* sum(pose.confidence for pose in pose_sequence), in hundredths
RECURSIVE sum_confidence(_)
sum_confidence(pose_sequence) ==
    IF pose_sequence = <<>> THEN 0
    ELSE Head(pose_sequence).confidence + sum_confidence(Tail(pose_sequence))

\* score > tenths / 10
Exceeds(score, tenths) == 10 * score.num > tenths * score.den

\* a rep counted for every 5 poses
rep_count_per_five(pose_sequence) == Len(pose_sequence) \div 5

\* rep_count = len(pose_sequence) // 10
rep_count(pose_sequence) == Len(pose_sequence) \div FRAMES_PER_REP

\* a score that blends the confidence with a range-of-motion term taken from
\* the knee angles
form_score_blended(pose_sequence) ==
    LET bottoms == Cardinality({i \in DOMAIN pose_sequence :
                                   pose_sequence[i].left_knee = BOTTOM})
    IN  [num |-> 4 * sum_confidence(pose_sequence) + 600 * bottoms,
         den |-> 1000 * Len(pose_sequence)]

\* form_score = avg_confidence = sum(confidence) / len(pose_sequence)
form_score(pose_sequence) ==
    [num |-> sum_confidence(pose_sequence), den |-> 100 * Len(pose_sequence)]

\* the thresholds taken inclusively
rep_quality_inclusive(score) ==
    IF 10 * score.num >= 8 * score.den THEN "excellent"
    ELSE IF 10 * score.num >= 6 * score.den THEN "good"
    ELSE IF 10 * score.num >= 4 * score.den THEN "fair"
    ELSE "poor"

\* if form_score > 0.8 ... elif form_score > 0.6 ... elif form_score > 0.4 ... else
rep_quality(score) ==
    IF Exceeds(score, 8) THEN "excellent"
    ELSE IF Exceeds(score, 6) THEN "good"
    ELSE IF Exceeds(score, 4) THEN "fair"
    ELSE "poor"

\* a detector that flags a sequence whose average confidence is not above
\* EGO_LIFTING_THRESHOLD
ego_lifting_below_threshold(pose_sequence) ==
    ~Exceeds(form_score(pose_sequence), 8)

\* Ego-lifting detection: is_ego_lifting = False
ego_lifting_detection(pose_sequence) == FALSE

\* a service that labels a sequence without poses as a poor rep
no_pose_as_poor ==
    [rep_count |-> 0, form_score |-> [num |-> 0, den |-> 1],
     rep_quality |-> "poor", is_ego_lifting |-> FALSE,
     velocity |-> 0, range_of_motion |-> 0]

\* the RepAnalysis returned when there is no pose to analyse (the texts of
\* feedback and suggestions are left out of every RepAnalysis)
no_pose ==
    [rep_count |-> 0, form_score |-> [num |-> 0, den |-> 1],
     rep_quality |-> "unknown", is_ego_lifting |-> FALSE,
     velocity |-> 0, range_of_motion |-> 0]

\* an analysis that gives up on a sequence whose knee never comes back to
\* lockout from the bottom
_analyze_generic_pose_with_timeout(pose_sequence) ==
    IF pose_sequence = <<>>
    THEN no_pose
    ELSE IF \E i \in DOMAIN pose_sequence :
               /\ i > 1
               /\ pose_sequence[i - 1].left_knee = BOTTOM
               /\ pose_sequence[i].left_knee = LOCKOUT
    THEN [rep_count |-> rep_count(pose_sequence),
          form_score |-> form_score(pose_sequence),
          rep_quality |-> rep_quality(form_score(pose_sequence)),
          is_ego_lifting |-> ego_lifting_detection(pose_sequence),
          velocity |-> 0, range_of_motion |-> 0]
    ELSE [rep_count |-> 0,
          form_score |-> form_score(pose_sequence),
          rep_quality |-> "abandoned",
          is_ego_lifting |-> FALSE,
          velocity |-> 0, range_of_motion |-> 0]

_analyze_generic_pose(pose_sequence) ==
    IF pose_sequence = <<>>
    THEN no_pose
    ELSE [rep_count |-> rep_count(pose_sequence),
          form_score |-> form_score(pose_sequence),
          rep_quality |-> rep_quality(form_score(pose_sequence)),
          is_ego_lifting |-> ego_lifting_detection(pose_sequence),
          velocity |-> 0, range_of_motion |-> 0]

\* self.exercise_analyzers[exercise_type] if the table has the exercise type,
\* _analyze_generic_pose otherwise: every analyzer of the table hands the
\* sequence to _analyze_generic_pose
exercise_analyzer(exercise_type, pose_sequence) ==
    _analyze_generic_pose(pose_sequence)

\* a service that keeps the poses of the call before on the object and
\* analyses them together with the poses of this call
analyze_rep_sequence_accumulating(frames, exercise_type) ==
    LET earlier == IF analyses = <<>>
                   THEN <<>>
                   ELSE pose_data_sequence(analyses[Len(analyses)].request.frames)
        poses == earlier \o pose_data_sequence(frames)
    IN  IF poses = <<>>
        THEN no_pose
        ELSE exercise_analyzer(exercise_type, poses)

analyze_rep_sequence(frames, exercise_type) ==
    IF pose_data_sequence(frames) = <<>>
    THEN no_pose
    ELSE exercise_analyzer(exercise_type, pose_data_sequence(frames))

\* a recorded rep of frames frames: the first undetected of them show no
\* pose, the first confident of the others have confidence 1.0 and the rest
\* confidence; the knee starts at lockout and changes between lockout and
\* bottom every dwell frames
Frames(frames, undetected, confident, confidence, dwell) ==
    [i \in 1..frames |->
        IF i <= undetected THEN NoPose
        ELSE PoseData(IF i <= undetected + confident THEN 100 ELSE confidence,
                      IF ((i - 1) \div dwell) % 2 = 0 THEN LOCKOUT ELSE BOTTOM)]

AnalysisRequest(frames, exercise_type, load_pct) ==
    [frames |-> frames, exercise_type |-> exercise_type, load_pct |-> load_pct]

\* what analyze_video hands to the service: no frame at all
NoFrames == AnalysisRequest(<<>>, "squat", 100)

\* the pose service analyses the recorded rep
Analyze ==
    /\ Len(analyses) < MaxAnalyses
    /\ analyses' = Append(analyses,
          [request |-> analysis_request,
           result |-> analyze_rep_sequence(analysis_request.frames,
                                           analysis_request.exercise_type)])
    /\ UNCHANGED <<geometry_vars, chat_vars, analysis_request, rep_logs, next_rep_id, now, is_pro_user,
                   override_requests, logger, response>>

\* another rep is recorded
Record(request) ==
    /\ analysis_request' = request
    /\ UNCHANGED <<geometry_vars, chat_vars, analyses, rep_logs, next_rep_id, now, is_pro_user,
                   override_requests, logger, response>>

\* time passes between two requests
Tick ==
    /\ \E day \in Days : day > now /\ now' = day
    /\ response' = NoResponse
    /\ UNCHANGED <<pose_vars, geometry_vars, chat_vars, rep_logs, next_rep_id, is_pro_user, override_requests, logger>>

Init ==
    /\ rep_logs = {}
    /\ next_rep_id = 1
    /\ now = 0
    /\ is_pro_user = [u \in Users |-> u \in ProUsers]
    /\ override_requests = <<>>
    /\ logger = <<>>
    /\ response = NoResponse
    /\ landmarks = NoLandmarks
    /\ angles = NotCalculated
    /\ chat_request = NoRequest
    /\ chat_session = NoSession
    /\ chat_sessions = NoSessions
    /\ analysis_request = NoFrames
    /\ analyses = <<>>

Next ==
    \/ \E u \in Users, w \in Weights : log_rep(u, w)
    \/ \E u \in Users, id \in 1..MaxReps, rep_update \in RepUpdates :
          update_rep(u, id, rep_update)
    \/ \E u \in Users, id \in 1..MaxReps : delete_rep(u, id)
    \/ \E u \in Users : get_ego_lifting_status(u)
    \/ Tick

Spec == Init /\ [][Next]_vars

(***************************************************************************)
(* The risk assessment as a function of the window.  The table starts with *)
(* total reps of user 1, all logged on day 0: the first ego of them        *)
(* flagged is_ego_lifting and locked of them flagged is_locked, the locked *)
(* ones either among the first reps (overlapping the ego-lifting ones) or  *)
(* right after the ego-lifting ones (no overlap).  The assessment is asked *)
(* for on the last day the reps are inside the window or on the day after. *)
(***************************************************************************)
WindowRep(id, is_ego_lifting, is_locked) ==
    [RepLog(id, 1, 60, 0) EXCEPT !.is_ego_lifting = is_ego_lifting,
                                 !.is_locked = is_locked]

RiskInit ==
    /\ \E total \in 0..MaxWindow, ego \in 0..MaxWindow, locked \in 0..MaxWindow :
          /\ ego <= total
          /\ locked <= total
          /\ \E first_locked \in {1, ego + 1} :
                /\ first_locked + locked <= total + 1
                /\ rep_logs = {WindowRep(id, id <= ego,
                                         id >= first_locked /\ id < first_locked + locked) :
                               id \in 1..total}
          /\ next_rep_id = total + 1
    /\ now \in {WINDOW_DAYS, WINDOW_DAYS + 1}
    /\ is_pro_user = [u \in Users |-> u \in ProUsers]
    /\ override_requests = <<>>
    /\ logger = <<>>
    /\ response = NoResponse
    /\ landmarks = NoLandmarks
    /\ angles = NotCalculated
    /\ chat_request = NoRequest
    /\ chat_session = NoSession
    /\ chat_sessions = NoSessions
    /\ analysis_request = NoFrames
    /\ analyses = <<>>

RiskNext == \E u \in Users : get_ego_lifting_status(u)

RiskSpec == RiskInit /\ [][RiskNext]_vars

(***************************************************************************)
(* Override requests against a table that already holds reps: any subset   *)
(* of three rows that log_rep and update_rep can have left there.          *)
(***************************************************************************)
SeedReps ==
    {[RepLog(1, 1, 60, 0) EXCEPT !.is_ego_lifting = TRUE, !.is_locked = TRUE],
     [RepLog(2, 2, 90, 0) EXCEPT !.is_ego_lifting = TRUE],
     RepLog(3, 1, 90, 0)}

OverrideInit ==
    /\ rep_logs \in SUBSET SeedReps
    /\ next_rep_id = 4
    /\ now = 0
    /\ is_pro_user = [u \in Users |-> u \in ProUsers]
    /\ override_requests = <<>>
    /\ logger = <<>>
    /\ response = NoResponse
    /\ landmarks = NoLandmarks
    /\ angles = NotCalculated
    /\ chat_request = NoRequest
    /\ chat_session = NoSession
    /\ chat_sessions = NoSessions
    /\ analysis_request = NoFrames
    /\ analyses = <<>>

OverrideNext ==
    \/ \E u \in Users, reason \in Reasons : OverrideRequest(u, reason)
    \/ \E rid \in 1..MaxRequests : override_safety_lock(rid)
    \/ \E u \in Users : get_ego_lifting_status(u)

OverrideSpec == OverrideInit /\ [][OverrideNext]_vars

(***************************************************************************)
(* The two update handlers on a table that holds one rep of user 1, with   *)
(* the override handler that reads is_pro_user.                            *)
(***************************************************************************)
AccountInit ==
    /\ rep_logs = {RepLog(1, 1, 60, 0)}
    /\ next_rep_id = 2
    /\ now = 0
    /\ is_pro_user = [u \in Users |-> u \in ProUsers]
    /\ override_requests = <<>>
    /\ logger = <<>>
    /\ response = NoResponse
    /\ landmarks = NoLandmarks
    /\ angles = NotCalculated
    /\ chat_request = NoRequest
    /\ chat_session = NoSession
    /\ chat_sessions = NoSessions
    /\ analysis_request = NoFrames
    /\ analyses = <<>>

AccountNext ==
    \/ \E u \in Users, user_update \in UserUpdates : update_current_user(u, user_update)
    \/ \E u \in Users, id \in 1..MaxReps, rep_update \in RepUpdates \cup OwnerUpdates :
          update_rep(u, id, rep_update)
    \/ \E u \in Users, reason \in Reasons : OverrideRequest(u, reason)
    \/ \E rid \in 1..MaxRequests : override_safety_lock(rid)

AccountSpec == AccountInit /\ [][AccountNext]_vars

(***************************************************************************)
(* The rep table under the requests that name a rep: every user logs,      *)
(* reads, updates (the owner included in the bodies) and deletes.          *)
(***************************************************************************)
OwnershipInit == Init

OwnershipNext ==
    \/ \E u \in Users, w \in Weights : log_rep(u, w)
    \/ \E u \in Users, id \in 1..MaxReps : get_rep_detail(u, id)
    \/ \E u \in Users, id \in 1..MaxReps, rep_update \in RepUpdates \cup OwnerUpdates :
          update_rep(u, id, rep_update)
    \/ \E u \in Users, id \in 1..MaxReps : delete_rep(u, id)

OwnershipSpec == OwnershipInit /\ [][OwnershipNext]_vars

(***************************************************************************)
(* The analysis as a function of the recorded rep: one rep is recorded,    *)
(* of up to MaxFrames frames, and the service analyses it.                 *)
(***************************************************************************)
AnalysisRequests ==
    {AnalysisRequest(Frames(frames, undetected, confident, confidence, dwell),
                     exercise_type, load_pct) :
        frames \in 0..MaxFrames, undetected \in {0, 1, MaxFrames},
        confident \in 0..MaxFrames, confidence \in Confidences,
        dwell \in {2, 5, MaxFrames + 1},
        exercise_type \in ExerciseTypes, load_pct \in LoadPcts}

AnalysisInit ==
    /\ rep_logs = {}
    /\ next_rep_id = 1
    /\ now = 0
    /\ is_pro_user = [u \in Users |-> u \in ProUsers]
    /\ override_requests = <<>>
    /\ logger = <<>>
    /\ response = NoResponse
    /\ landmarks = NoLandmarks
    /\ angles = NotCalculated
    /\ chat_request = NoRequest
    /\ chat_session = NoSession
    /\ chat_sessions = NoSessions
    /\ analysis_request \in AnalysisRequests
    /\ analyses = <<>>

AnalysisNext == Analyze

AnalysisSpec == AnalysisInit /\ [][AnalysisNext]_vars

(***************************************************************************)
(* Several reps recorded and analysed one after another, in any order.     *)
(***************************************************************************)
ScoringRequests ==
    {AnalysisRequest(Frames(frames, 0, confident, 0, 5), exercise_type, 100) :
        frames \in {0, FRAMES_PER_REP}, confident \in {5, 9},
        exercise_type \in ExerciseTypes}

ScoringInit == Init

ScoringNext ==
    \/ \E request \in ScoringRequests : Record(request)
    \/ Analyze

ScoringSpec == ScoringInit /\ [][ScoringNext]_vars

\* analyze_rep_sequence is a synchronous call: once made, it runs to its return
ScoringFairSpec == ScoringSpec /\ WF_vars(Analyze)

(***************************************************************************)
(* The joint angles as a function of the landmarks: a frame has each       *)
(* landmark at a point of the grid, at a NaN point, or not at all.         *)
(***************************************************************************)
GeometryInit ==
    /\ rep_logs = {}
    /\ next_rep_id = 1
    /\ now = 0
    /\ is_pro_user = [u \in Users |-> u \in ProUsers]
    /\ override_requests = <<>>
    /\ logger = <<>>
    /\ response = NoResponse
    /\ analysis_request = NoFrames
    /\ analyses = <<>>
    /\ \E present \in SUBSET LandmarkIds :
          landmarks \in [present -> Points \cup {NaNPoint}]
    /\ angles = NotCalculated
    /\ chat_request = NoRequest
    /\ chat_session = NoSession
    /\ chat_sessions = NoSessions

GeometryNext == _calculate_joint_angles

GeometrySpec == GeometryInit /\ [][GeometryNext]_vars

(***************************************************************************)
(* The rep history as the trend, alert and progress computations read it.  *)
(* form_score and rep_quality are columns that log_rep leaves empty and a  *)
(* later update fills; form_score is in hundredths, or None.  All reps of  *)
(* this history are of one exercise.                                       *)
(***************************************************************************)
FormScores == {0, 25, 75}

None == [is_none |-> TRUE, value |-> 0]

Score(value) == [is_none |-> FALSE, value |-> value]

AnalysedRepLog(id, user_id, weight_kg, created_at, score, quality) ==
    [id |-> id, user_id |-> user_id, weight_kg |-> weight_kg,
     is_ego_lifting |-> RepLogDefaults.is_ego_lifting,
     is_locked |-> RepLogDefaults.is_locked,
     created_at |-> created_at,
     form_score |-> score, rep_quality |-> quality]

\* bool(form_score): None and 0.0 are false
truthy(score) == ~score.is_none /\ score.value # 0

\* round(num / den, 0) for num >= 0 and den > 0, as Python rounds: to the
\* nearest integer, and to the even one of the two when num / den is half-way
round_half_even(num, den) ==
    LET floor == num \div den
        twice_rest == 2 * (num % den)
    IN  IF twice_rest > den \/ (twice_rest = den /\ floor % 2 = 1)
        THEN floor + 1
        ELSE floor

RECURSIVE sum_form_score(_)
\* sum(rep.form_score or 0 for rep in reps), in hundredths
sum_form_score(reps) ==
    IF reps = {} THEN 0
    ELSE LET rep == CHOOSE rep \in reps : TRUE
         IN  (IF truthy(rep.form_score) THEN rep.form_score.value ELSE 0)
                 + sum_form_score(reps \ {rep})

RECURSIVE sorted(_)
\* sorted(keys): the dates of a set in increasing order (the ISO strings of
\* dates sort as the dates do)
sorted(keys) ==
    IF keys = {} THEN <<>>
    ELSE LET first == CHOOSE first \in keys : \A key \in keys : first <= key
         IN  <<first>> \o sorted(keys \ {first})

RECURSIVE sorted_by_created_at(_)
\* sorted(reps, key=lambda x: x.created_at): created_at is in days here, and
\* reps of one day are in the order of their ids, the order they were logged in
sorted_by_created_at(reps) ==
    IF reps = {} THEN <<>>
    ELSE LET first == CHOOSE first \in reps : \A rep \in reps :
                          \/ first.created_at < rep.created_at
                          \/ first.created_at = rep.created_at /\ first.id <= rep.id
         IN  <<first>> \o sorted_by_created_at(reps \ {first})

(***************************************************************************)
(* get_form_trends.                                                        *)
(***************************************************************************)
\* daily_scores[date]: the reps of the day whose form_score is true
daily_scores(reps, date) ==
    {rep \in reps : rep.created_at = date /\ truthy(rep.form_score)}

\* one entry of trend_data; average_form_score is in thousandths
daily_entry(reps, date) ==
    LET scores == daily_scores(reps, date)
    IN  [date |-> date,
         average_form_score |->
             IF scores # {}
             THEN round_half_even(10 * sum_form_score(scores), Cardinality(scores))
             ELSE 0,
         rep_count |-> Cardinality(scores)]

trend_series(reps) ==
    LET dates == sorted({rep.created_at : rep \in reps})
    IN  [i \in 1..Len(dates) |-> daily_entry(reps, dates[i])]

RECURSIVE sum_average_form_score(_)
sum_average_form_score(entries) ==
    IF entries = <<>> THEN 0
    ELSE Head(entries).average_form_score + sum_average_form_score(Tail(entries))

Min(a, b) == IF a <= b THEN a ELSE b

\* the early window taken as the first half of the series
first_half(trend_data) == SubSeq(trend_data, 1, Len(trend_data) \div 2)

\* trend_data[:7]
first_week(trend_data) == SubSeq(trend_data, 1, Min(TREND_WINDOW, Len(trend_data)))

\* trend_data[-7:]
last_week(trend_data) ==
    SubSeq(trend_data, Len(trend_data) - Min(TREND_WINDOW, Len(trend_data)) + 1,
           Len(trend_data))

\* the classification with a threshold of 0.05
trend_of_small_changes(trend_data) ==
    LET weeks == Min(TREND_WINDOW, Len(trend_data))
        first_week_sum == sum_average_form_score(first_week(trend_data))
        last_week_sum == sum_average_form_score(last_week(trend_data))
    IN  IF Len(trend_data) >= 2
        THEN IF 2 * last_week_sum > 2 * first_week_sum + TREND_THRESHOLD * weeks
             THEN "improving"
             ELSE IF 2 * last_week_sum < 2 * first_week_sum - TREND_THRESHOLD * weeks
                  THEN "declining"
                  ELSE "stable"
        ELSE "insufficient_data"

\* The overall trend.  first_week_avg and last_week_avg are the two sums
\* divided by min(7, len(trend_data)); the comparison with 0.1 is made here on
\* the sums, in thousandths.
trend(trend_data) ==
    LET weeks == Min(TREND_WINDOW, Len(trend_data))
        first_week_sum == sum_average_form_score(first_week(trend_data))
        last_week_sum == sum_average_form_score(last_week(trend_data))
    IN  IF Len(trend_data) >= 2
        THEN IF last_week_sum > first_week_sum + TREND_THRESHOLD * weeks
             THEN "improving"
             ELSE IF last_week_sum < first_week_sum - TREND_THRESHOLD * weeks
                  THEN "declining"
                  ELSE "stable"
        ELSE "insufficient_data"

form_trends(reps, days) ==
    IF reps = {}
    THEN [status_code |-> HTTP_200_OK, trend |-> "no_data", period_days |-> days]
    ELSE [status_code |-> HTTP_200_OK,
          trend |-> trend(trend_series(reps)),
          trend_data |-> trend_series(reps),
          period_days |-> days,
          total_reps |-> Cardinality(reps),
          average_form_score |->
              round_half_even(10 * sum_form_score(reps), Cardinality(reps))]

get_form_trends(current_user, days) ==
    /\ LET start_date == now - days
           reps == {rep \in rep_logs : /\ rep.user_id = current_user
                                       /\ rep.created_at >= start_date}
       IN  response' = Answer("get_form_trends", current_user, form_trends(reps, days))
    /\ UNCHANGED <<pose_vars, geometry_vars, chat_vars, rep_logs, next_rep_id, now,
                   is_pro_user, override_requests, logger>>

(***************************************************************************)
(* get_safety_alerts.  _check_weight_progression and _check_overtraining   *)
(* are coroutine functions and the handler calls them without await: what  *)
(* it gets is a coroutine object, alerts.extend of it raises TypeError     *)
(* (a coroutine is not iterable), and the handler's except clause answers  *)
(* 500.                                                                    *)
(***************************************************************************)
dangerous_form_alert ==
    [type |-> "dangerous_form", severity |-> "high"]

\* what calling the coroutine function returns to a caller that does not await
_check_weight_progression(user_id) == [coroutine |-> TRUE, result |-> <<>>]

_check_overtraining(user_id) == [coroutine |-> TRUE, result |-> <<>>]

\* alerts.extend(more): raises when more is not iterable
extend(alerts, more) ==
    IF alerts.raised \/ more.coroutine
    THEN [raised |-> TRUE, list |-> <<>>]
    ELSE [raised |-> FALSE, list |-> alerts.list \o more.result]

safety_alerts(current_user, dangerous_reps) ==
    LET alerts == [raised |-> FALSE,
                   list |-> IF dangerous_reps # {} THEN <<dangerous_form_alert>>
                            ELSE <<>>]
        extended == extend(extend(alerts, _check_weight_progression(current_user)),
                           _check_overtraining(current_user))
    IN  IF extended.raised
        THEN [status_code |-> HTTP_500_INTERNAL_SERVER_ERROR,
              detail |-> "Failed to get safety alerts"]
        ELSE [status_code |-> HTTP_200_OK,
              alerts |-> extended.list,
              total_alerts |-> Len(extended.list),
              high_severity_count |->
                  Len(SelectSeq(extended.list, LAMBDA a : a.severity = "high"))]

get_safety_alerts(current_user) ==
    /\ LET seven_days_ago == now - ALERT_DAYS
           dangerous_reps == {rep \in rep_logs : /\ rep.user_id = current_user
                                                 /\ rep.rep_quality = "dangerous"
                                                 /\ rep.created_at >= seven_days_ago}
       IN  response' = Answer("get_safety_alerts", current_user,
                              safety_alerts(current_user, dangerous_reps))
    /\ UNCHANGED <<pose_vars, geometry_vars, chat_vars, rep_logs, next_rep_id, now,
                   is_pro_user, override_requests, logger>>

(***************************************************************************)
(* RepAnalyzer.analyze_workout_session, on the reps of one user: its       *)
(* form_trend and its strength_progress.                                   *)
(***************************************************************************)
RECURSIVE sum_scores(_)
\* sum of a list of scores
sum_scores(scores) ==
    IF scores = <<>> THEN 0
    ELSE Head(scores).form_score.value + sum_scores(Tail(scores))

\* early_avg and late_avg are the means of the scores of the two halves; the
\* comparison with 0.1 is made on the cross products, in hundredths
_analyze_form_trend(reps) ==
    IF Cardinality(reps) < MIN_TREND_REPS THEN "insufficient_data"
    ELSE LET sorted_reps == sorted_by_created_at(reps)
             mid_point == Len(sorted_reps) \div 2
             early_reps == SubSeq(sorted_reps, 1, mid_point)
             late_reps == SubSeq(sorted_reps, mid_point + 1, Len(sorted_reps))
             early_scores == SelectSeq(early_reps, LAMBDA rep : ~rep.form_score.is_none)
             late_scores == SelectSeq(late_reps, LAMBDA rep : ~rep.form_score.is_none)
             early == Len(early_scores)
             late == Len(late_scores)
         IN  IF early = 0 \/ late = 0 THEN "insufficient_data"
             ELSE IF sum_scores(late_scores) * early
                        > sum_scores(early_scores) * late + 10 * early * late
                  THEN "improving"
                  ELSE IF sum_scores(late_scores) * early
                             < sum_scores(early_scores) * late - 10 * early * late
                       THEN "declining"
                       ELSE "stable"

\* strength_progress of the one exercise, in tenths of a percent; sorted(weights)
\* orders the weights by value, so first_weight is the lightest and last_weight
\* the heaviest
_analyze_strength_progress(reps) ==
    IF Cardinality(reps) >= 2
    THEN LET first_weight == CHOOSE w \in {rep.weight_kg : rep \in reps} :
                                 \A rep \in reps : w <= rep.weight_kg
             last_weight == CHOOSE w \in {rep.weight_kg : rep \in reps} :
                                \A rep \in reps : w >= rep.weight_kg
         IN  IF first_weight > 0
             THEN [recorded |-> TRUE,
                   progress |-> round_half_even(1000 * (last_weight - first_weight),
                                                first_weight)]
             ELSE [recorded |-> FALSE, progress |-> 0]
    ELSE [recorded |-> FALSE, progress |-> 0]

workout_insights(reps) ==
    IF reps = {}
    THEN [total_reps |-> 0, form_trend |-> "no_data",
          strength_progress |-> [recorded |-> FALSE, progress |-> 0]]
    ELSE [total_reps |-> Cardinality(reps),
          form_trend |-> _analyze_form_trend(reps),
          strength_progress |-> _analyze_strength_progress(reps)]

analyze_workout_session(current_user) ==
    /\ response' = Answer("analyze_workout_session", current_user,
                          workout_insights({rep \in rep_logs : rep.user_id = current_user}))
    /\ UNCHANGED <<pose_vars, geometry_vars, chat_vars, rep_logs, next_rep_id, now,
                   is_pro_user, override_requests, logger>>

(***************************************************************************)
(* The computations as functions of the history.  User 1 has one rep on    *)
(* each of the days 1..total: the reps up to day split have the score      *)
(* early and one weight, the later ones the score late and the other       *)
(* weight (rising, or falling); the last day may hold a second rep; the    *)
(* rep of the last day may be labelled dangerous.  User 2 has one rep.     *)
(* The computations are asked for on the last day or eight days after.     *)
(***************************************************************************)
HistoryScores == {None} \cup {Score(value) : value \in FormScores}

HistoryInit ==
    /\ \E total \in 0..MaxDays, split \in 0..MaxDays, early \in HistoryScores,
          late \in HistoryScores, second \in BOOLEAN, second_score \in HistoryScores,
          rising \in BOOLEAN, dangerous \in BOOLEAN, later \in {0, ALERT_DAYS + 1} :
          /\ split <= total
          /\ ~second => second_score = None
          /\ total = 0 => ~second
          /\ LET weight_kg(day) == IF (day <= split) = rising THEN 60 ELSE 90
                 label(day) == IF day = total /\ dangerous THEN "dangerous" ELSE "good"
             IN  rep_logs =
                    {AnalysedRepLog(day, 1, weight_kg(day), day,
                                    IF day <= split THEN early ELSE late,
                                    label(day)) : day \in 1..total}
                    \cup {AnalysedRepLog(total + 1, 1, weight_kg(total), total,
                                         second_score, "good") : s \in {s \in {1} : second}}
                    \cup {AnalysedRepLog(total + 2, 2, 60, total, Score(75), "dangerous")}
          /\ next_rep_id = total + 3
          /\ now = total + later
    /\ is_pro_user = [u \in Users |-> u \in ProUsers]
    /\ override_requests = <<>>
    /\ logger = <<>>
    /\ response = NoResponse
    /\ landmarks = NoLandmarks
    /\ angles = NotCalculated
    /\ chat_request = NoRequest
    /\ chat_session = NoSession
    /\ chat_sessions = NoSessions
    /\ analysis_request = NoFrames
    /\ analyses = <<>>

HistoryNext ==
    \/ \E u \in Users, days \in {ALERT_DAYS, DEFAULT_DAYS} : get_form_trends(u, days)
    \/ \E u \in Users : get_safety_alerts(u)
    \/ \E u \in Users : analyze_workout_session(u)

HistorySpec == HistoryInit /\ [][HistoryNext]_vars

(***************************************************************************)
(* The chat service under the messages of a user and of callers without a *)
(* user id.                                                                *)
(***************************************************************************)
Messages ==
    {<<"T", "e", "a", "r">>,
     <<"s", "h", "a", "r", "p", " ", "p", "a", "i", "n">>,
     <<"P", "A", "I", "N">>,
     <<"t", "i", "r", "e", "d">>,
     <<"a", "r", "m", "s">>,
     <<"t", "i", "r", "e", "d", " ", "P", "A", "I", "N">>}

ChatUserIds == {"user_123", NoUserId}

ChatInit == Init

ChatNext ==
    \/ \E message \in Messages, user_id \in ChatUserIds : Chat(ChatRequest(message, user_id))
    \/ \E connected \in BOOLEAN, matched \in BOOLEAN : process_chat_message(connected, matched)

ChatSpec == ChatInit /\ [][ChatNext]_vars

(***************************************************************************)
(* The risk model of the specification, in exact arithmetic, on a window   *)
(* of reps: risk_score = 0.6 * ego / total + 0.4 * locked / total, so      *)
(* 10 * total * risk_score = 6 * ego + 4 * locked.                          *)
(***************************************************************************)
EgoLiftingCount(reps) == Cardinality({rep \in reps : rep.is_ego_lifting})

LockedCount(reps) == Cardinality({rep \in reps : rep.is_locked})

TenNTimesScore(reps) == 6 * EgoLiftingCount(reps) + 4 * LockedCount(reps)

\* high iff risk_score > 0.3, medium iff 0.15 < risk_score <= 0.3, else low
SpecTier(reps) ==
    IF TenNTimesScore(reps) > 3 * Cardinality(reps) THEN "high"
    ELSE IF 2 * TenNTimesScore(reps) > 3 * Cardinality(reps) THEN "medium"
    ELSE "low"

\* the last step was a risk assessment; Window is the window it was made on
Assessed == response.op = "get_ego_lifting_status"

Window == recent_reps(response.user, now)

\* risk_score of an answer is in thousandths (the handler rounds to 3 places)
ScoreIsFormula(body, reps) ==
    LET diff == body.risk_score * 10 * Cardinality(reps) - 1000 * TenNTimesScore(reps)
    IN  2 * diff <= 10 * Cardinality(reps) /\ 2 * diff >= -10 * Cardinality(reps)

\* C1: for every non-empty window the assessment returns
\* risk_score = 0.6 * (ego-lifting reps / total) + 0.4 * (locked reps / total),
\* both fractions over the same total (to the 3 places the answer carries).
C1_RiskScoreFormula ==
    (Assessed /\ Window # {}) =>
        /\ response.body.status_code = HTTP_200_OK
        /\ ScoreIsFormula(response.body, Window)

\* C2: the tier of an assessment is high iff risk_score > 0.3, medium iff
\* 0.15 < risk_score <= 0.3 and low iff risk_score <= 0.15 (strict comparisons:
\* exactly 0.30 is medium, exactly 0.15 is low).
C2_TierThresholds ==
    (Assessed /\ Window # {}) =>
        /\ response.body.status_code = HTTP_200_OK
        /\ response.body.ego_lifting_risk = SpecTier(Window)

\* C3: when the window's tier is high the assessment reports tier high and
\* locks the plan (is_plan_locked = true), as for 30 reps with 14 ego-lifting
\* and 5 locked.
C3_HighTierLocksPlan ==
    (Assessed /\ SpecTier(Window) = "high") =>
        /\ response.body.status_code = HTTP_200_OK
        /\ response.body.ego_lifting_risk = "high"
        /\ response.body.is_plan_locked

\* the window of the scenario of C4: 30 reps, 10 ego-lifting, 5 locked, no overlap
MediumScenario(reps) ==
    /\ Cardinality(reps) = 30
    /\ EgoLiftingCount(reps) = 10
    /\ LockedCount(reps) = 5
    /\ \A rep \in reps : ~(rep.is_ego_lifting /\ rep.is_locked)

\* C4: no assessment locks a plan whose tier is low or medium, and for 30 reps
\* with 10 ego-lifting and 5 locked (no overlap) the assessment reports
\* risk_score 0.267, tier medium and is_plan_locked = false.
C4_MediumScenarioUnlocked ==
    Assessed =>
        /\ (SpecTier(Window) # "high" /\ response.body.status_code = HTTP_200_OK)
              => ~response.body.is_plan_locked
        /\ MediumScenario(Window) =>
              /\ response.body.status_code = HTTP_200_OK
              /\ response.body.risk_score = 267
              /\ response.body.ego_lifting_risk = "medium"
              /\ ~response.body.is_plan_locked

\* C5: after any sequence of rep logs, updates and deletions, an assessment
\* that finds the tier low or medium reports the plan unlocked, and the
\* reported lock is the one the current window's tier asks for.
C5_LockFollowsTier ==
    Assessed =>
        /\ response.body.status_code = HTTP_200_OK
        /\ response.body.is_plan_locked = (SpecTier(Window) = "high")

(***************************************************************************)
(* Override requests.                                                      *)
(***************************************************************************)
\* both requests were in flight at the same time
Concurrent(i, j) ==
    /\ override_requests[i].sent_at < override_requests[j].answered_at
    /\ override_requests[j].sent_at < override_requests[i].answered_at

Accepted == {rid \in Answered : override_requests[rid].answer.status_code = HTTP_200_OK}

\* the position of an accepted request among the accepted ones, by answer
AcceptedRank(rid) ==
    Cardinality({o \in Accepted :
                    override_requests[o].answered_at <= override_requests[rid].answered_at})

\* the user's plan lock is due: the tier of the user's window is high
LockDue(user) == SpecTier(recent_reps(user, now)) = "high"

\* C6 as stated: an authorized override request of a user whose plan lock is
\* due moves the lock state to LOCKED_OVERRIDDEN.
C6_OverrideMovesToOverridden ==
    \A rid \in Answered :
        (may_override(override_requests[rid].user_id)
            /\ LockDue(override_requests[rid].user_id))
        => override_requests[rid].answer.status = "LOCKED_OVERRIDDEN"

\* C6 amended: an authorized override request is only submitted for approval:
\* its answer has status pending_approval, and the step leaves the rep table
\* and with it every user's risk assessment as they were.
C6_OverrideOnlySubmitted ==
    [][\A rid \in InFlight :
          (override_requests'[rid].answered_at # 0
              /\ may_override(override_requests[rid].user_id))
          => /\ override_requests'[rid].answer.status = "pending_approval"
             /\ rep_logs' = rep_logs
             /\ \A u \in Users :
                   ego_lifting_status(recent_reps(u, now))'
                       = ego_lifting_status(recent_reps(u, now))]_vars

\* a Pro user whose lock is due has had an override answered, and the risk
\* assessment has been asked for afterwards
C6_Witness ==
    /\ Assessed
    /\ \E rid \in Answered :
          /\ override_requests[rid].user_id = response.user
          /\ may_override(response.user)
          /\ LockDue(response.user)
          /\ response.body.status_code = HTTP_500_INTERNAL_SERVER_ERROR

\* C7: an override request is accepted only from a Pro user; a request of any
\* other user is answered 403 and its handling changes neither the log nor
\* the rep table; every accepted request is recorded by the logger, in
\* order, with its user and its reason.
C7_AcceptedAreLogged ==
    /\ \A rid \in Answered :
          LET request == override_requests[rid]
          IN  IF is_pro_user[request.user_id]
              THEN /\ request.answer.status_code = HTTP_200_OK
                   /\ AcceptedRank(rid) <= Len(logger)
                   /\ logger[AcceptedRank(rid)] =
                         [user_id |-> request.user_id, reason |-> request.reason]
              ELSE request.answer.status_code = HTTP_403_FORBIDDEN
    /\ Len(logger) = Cardinality(Accepted)

C7_RejectedChangesNothing ==
    \A rid \in InFlight :
        (override_requests'[rid].answered_at # 0
            /\ ~is_pro_user[override_requests[rid].user_id])
        => /\ override_requests'[rid].answer.status_code = HTTP_403_FORBIDDEN
           /\ UNCHANGED <<pose_vars, geometry_vars, chat_vars, rep_logs, next_rep_id, now, is_pro_user, logger>>

C7_OverrideAuthorized ==
    []C7_AcceptedAreLogged /\ [][C7_RejectedChangesNothing]_vars

\* a rejected and an accepted request have both been answered
C7_Witness ==
    /\ \E rid \in Answered :
          override_requests[rid].answer.status_code = HTTP_403_FORBIDDEN
    /\ \E rid \in Accepted : logger # <<>>

\* C8 as stated: of two concurrent override requests of one user the later
\* wins and the earlier is reported superseded.
C8_EarlierSuperseded ==
    \A i, j \in Accepted :
        (i < j /\ override_requests[i].user_id = override_requests[j].user_id
               /\ Concurrent(i, j))
        => /\ override_requests[i].answer.status = "superseded"
           /\ override_requests[j].answer.status # "superseded"

\* the log entries of one user
LoggedFor(user) == {k \in DOMAIN logger : logger[k].user_id = user}

\* C8 amended: two concurrent override requests of one Pro user are handled
\* independently of each other: both get the same answer (pending_approval,
\* the same override_id), neither is reported superseded, and each is logged.
C8_ConcurrentBothSubmitted ==
    \A i, j \in Answered :
        (i < j /\ override_requests[i].user_id = override_requests[j].user_id
               /\ is_pro_user[override_requests[i].user_id]
               /\ Concurrent(i, j))
        => /\ override_requests[i].answer.status = "pending_approval"
           /\ override_requests[j].answer = override_requests[i].answer
           /\ Cardinality(LoggedFor(override_requests[i].user_id)) >= 2

\* two requests of one Pro user were in flight together, the later one was
\* answered first, and both have been answered
C8_Witness ==
    \E i, j \in Answered :
        /\ i < j
        /\ override_requests[i].user_id = override_requests[j].user_id
        /\ is_pro_user[override_requests[i].user_id]
        /\ Concurrent(i, j)
        /\ override_requests[j].answered_at < override_requests[i].answered_at

(***************************************************************************)
(* The rep records.                                                        *)
(***************************************************************************)
\* C9: no client operation makes a rep's is_locked true.  The handlers of the
\* model are all client operations, so no stored rep is ever locked.
C9_ClientsNeverLock ==
    \A rep \in rep_logs : ~rep.is_locked

\* C10: a stored rep keeps the kinematic values it was logged with, and its
\* label fields change only through an explicit action on them (an override
\* or an update that names the label).
C10_RepsImmutable ==
    [][\A rep \in rep_logs : \A after \in rep_logs' :
          after.id = rep.id =>
              /\ after.weight_kg = rep.weight_kg
              /\ after.created_at = rep.created_at
              /\ response'.op \notin {"override_safety_lock", "update_rep"}
                    => /\ after.is_ego_lifting = rep.is_ego_lifting
                       /\ after.is_locked = rep.is_locked]_vars

(***************************************************************************)
(* C11: an update changes only fields of an allow-list: update_rep leaves  *)
(* id, user_id and is_locked of every stored rep as they were, and         *)
(* update_current_user leaves the Pro status of every user as it was,      *)
(* whatever the request body.                                              *)
(***************************************************************************)
C11_UpdatesKeepProtectedFields ==
    [][/\ response'.op = "update_rep" =>
             \A rep \in rep_logs : \E after \in rep_logs' :
                /\ after.id = rep.id
                /\ after.user_id = rep.user_id
                /\ after.is_locked = rep.is_locked
       /\ response'.op = "update_current_user" => is_pro_user' = is_pro_user]_vars

(***************************************************************************)
(* C12: the counts of a risk assessment agree with the stored reps after   *)
(* any sequence of log, update and delete: the assessment reports          *)
(* total_recent_reps as the number of the caller's reps in the window and  *)
(* locked_reps_count as the number of those with is_locked, none above the *)
(* total.                                                                  *)
(***************************************************************************)
C12_WindowCountsAgree ==
    Assessed =>
        /\ response.body.status_code = HTTP_200_OK
        /\ response.body.locked_reps_count = LockedCount(Window)
        /\ response.body.locked_reps_count <= Cardinality(Window)
        /\ Window # {} => response.body.total_recent_reps = Cardinality(Window)

C14_AssessmentNeverFails ==
    Assessed =>
        /\ response.body.status_code # HTTP_500_INTERNAL_SERVER_ERROR
        /\ Window = {} =>
              /\ response.body.ego_lifting_risk = "low"
              /\ response.body.risk_score = 0
              /\ response.body.locked_reps_count = 0
              /\ response.body.is_plan_locked = FALSE

(***************************************************************************)
(* What the specification says of an analysed rep, on the poses of its     *)
(* frames.  The range of motion of a rep is the span of its knee angle;    *)
(* its ROM sub-score is that span over the span of a full rep, in percent. *)
(* A rep whose knee never leaves lockout has ROM sub-score 0, below every  *)
(* floor.  The load is increased when it is above the rolling average (by  *)
(* half of it, in this model).                                             *)
(***************************************************************************)
Poses(analysis) == pose_data_sequence(analysis.request.frames)

KneeAngles(poses) == {poses[i].left_knee : i \in DOMAIN poses}

RangeOfMotion(poses) ==
    IF LOCKOUT \in KneeAngles(poses) /\ BOTTOM \in KneeAngles(poses)
    THEN LOCKOUT - BOTTOM
    ELSE 0

RomSubScore(poses) == (100 * RangeOfMotion(poses)) \div (LOCKOUT - BOTTOM)

LoadIncreased(request) == request.load_pct > 100

\* the full cycles of the knee angle: lockout reached again from the bottom
CompletedCycles(poses) ==
    Cardinality({i \in DOMAIN poses :
                    /\ i > 1
                    /\ poses[i - 1].left_knee = BOTTOM
                    /\ poses[i].left_knee = LOCKOUT})

\* two form scores are the same number
SameScore(a, b) == a.num * b.den = b.num * a.den

(***************************************************************************)
(* C15: an analysed rep is flagged is_ego_lifting exactly when its load is *)
(* increased and its velocity or ROM sub-score is below its floor.         *)
(***************************************************************************)
C15_FlaggedIffLoadAndDegraded ==
    \A i \in DOMAIN analyses :
        Poses(analyses[i]) # <<>> =>
            (analyses[i].result.is_ego_lifting
                <=> /\ LoadIncreased(analyses[i].request)
                    /\ RomSubScore(Poses(analyses[i])) = 0)

\* C15, as the code has it: no analysis flags a rep is_ego_lifting, whatever
\* its load and its range of motion
C15_NeverFlagged ==
    \A i \in DOMAIN analyses : analyses[i].result.is_ego_lifting = FALSE

\* a rep with increased load and no range of motion has been analysed
C15_Witness ==
    \E i \in DOMAIN analyses :
        /\ Poses(analyses[i]) # <<>>
        /\ LoadIncreased(analyses[i].request)
        /\ RomSubScore(Poses(analyses[i])) = 0
        /\ ~analyses[i].result.is_ego_lifting

C18_WeightedBlend ==
    \A i \in DOMAIN analyses :
        LET poses == Poses(analyses[i])
            score == analyses[i].result.form_score
        IN  poses # <<>> =>
               \E velocity_sub_score \in 0..100 :
                  10000 * Len(poses) * score.num
                     = score.den * (40 * sum_confidence(poses)
                                    + 35 * RomSubScore(poses) * Len(poses)
                                    + 25 * velocity_sub_score * Len(poses))

\* C18, as the code has it: the form_score is the average pose confidence,
\* whatever the range of motion, and velocity and range_of_motion are
\* reported as 0.0
C18_ScoreIsAverageConfidence ==
    \A i \in DOMAIN analyses :
        LET poses == Poses(analyses[i])
            result == analyses[i].result
        IN  poses # <<>> =>
               /\ result.form_score.num * 100 * Len(poses)
                     = sum_confidence(poses) * result.form_score.den
               /\ result.velocity = 0
               /\ result.range_of_motion = 0

\* a rep of full confidence and no range of motion has been scored 1.0
C18_Witness ==
    \E i \in DOMAIN analyses :
        /\ Poses(analyses[i]) # <<>>
        /\ RomSubScore(Poses(analyses[i])) = 0
        /\ analyses[i].result.form_score.num = analyses[i].result.form_score.den

C20_OneRepPerCycle ==
    \A i \in DOMAIN analyses :
        Poses(analyses[i]) # <<>> =>
            analyses[i].result.rep_count = CompletedCycles(Poses(analyses[i]))

\* C20, as the code has it: the number of reps is the number of frames with
\* a detected pose divided by 10, rounded down, whatever the angles
C20_RepPerTenPoses ==
    \A i \in DOMAIN analyses :
        LET frames == analyses[i].request.frames
        IN  FRAMES_PER_REP * analyses[i].result.rep_count
               = Cardinality({k \in DOMAIN frames : frames[k].detected})
                    - (Cardinality({k \in DOMAIN frames : frames[k].detected})
                          % FRAMES_PER_REP)

\* two reps have been counted on frames whose knee never left lockout
C20_Witness ==
    \E i \in DOMAIN analyses :
        /\ analyses[i].result.rep_count = 2
        /\ CompletedCycles(Poses(analyses[i])) = 0

(***************************************************************************)
(* C21: a set whose knee angle never completes a full cycle is abandoned:  *)
(* its analysis reports zero reps and an explicit abandonment outcome; and *)
(* the analysis of every recorded frame sequence eventually returns.       *)
(***************************************************************************)
AbandonmentSignalled(result) == result.rep_quality = "abandoned"

C21_NeverAbandoned ==
    \A i \in DOMAIN analyses :
        /\ ~AbandonmentSignalled(analyses[i].result)
        /\ (Poses(analyses[i]) # <<>> /\ CompletedCycles(Poses(analyses[i])) = 0) =>
              /\ analyses[i].result.rep_count = Len(Poses(analyses[i])) \div FRAMES_PER_REP
              /\ analyses[i].result.rep_quality \in {"excellent", "good", "fair", "poor"}

Triple(joint) == [k \in 1..3 |-> landmarks[AngleLandmarks[joint][k]]]

AllPresent(joint) == \A k \in 1..3 : AngleLandmarks[joint][k] \in DOMAIN landmarks

Malformed(triple) ==
    \/ \E k \in 1..3 : triple[k].nan
    \/ triple[1] = triple[2]
    \/ triple[3] = triple[2]

\* point1 and point3 differ from the vertex in the image plane
DistinctInImage(triple) ==
    /\ triple[1].x # triple[2].x \/ triple[1].y # triple[2].y
    /\ triple[3].x # triple[2].x \/ triple[3].y # triple[2].y

InRange(angle) == angle.kind = "degrees" /\ angle.dot * angle.dot <= angle.norms

(***************************************************************************)
(* C22: a joint angle is in the computed set only when its three           *)
(* landmarks are present, and an angle whose triple is malformed           *)
(* (coincident points, NaN) is absent from the set.                        *)
(***************************************************************************)
C22_MalformedAnglesAbsent ==
    angles.calculated =>
        \A joint \in DOMAIN AngleLandmarks :
            /\ joint \in DOMAIN angles.joint => AllPresent(joint)
            /\ (AllPresent(joint) /\ Malformed(Triple(joint))) =>
                  joint \notin DOMAIN angles.joint

(***************************************************************************)
(* C23: for landmarks a, b, c with a # b and c # b the angle at b is in    *)
(* [0, 180] degrees and angle(a, b, c) = angle(c, b, a).                   *)
(***************************************************************************)
C23_AngleInRangeSymmetric ==
    angles.calculated =>
        \A joint \in DOMAIN angles.joint :
            LET triple == Triple(joint)
            IN  (/\ \A k \in 1..3 : ~triple[k].nan
                 /\ triple[1] # triple[2]
                 /\ triple[3] # triple[2]) =>
                    /\ InRange(angles.joint[joint])
                    /\ angles.joint[joint]
                          = _calculate_angle(triple[3], triple[2], triple[1])

\* C23, as the code has it: the same for landmarks a and c whose x or y
\* differs from that of b (the angle is the angle in the image plane)
C23_ImageAngleInRangeSymmetric ==
    angles.calculated =>
        \A joint \in DOMAIN angles.joint :
            LET triple == Triple(joint)
            IN  ((\A k \in 1..3 : ~triple[k].nan) /\ DistinctInImage(triple)) =>
                    /\ InRange(angles.joint[joint])
                    /\ angles.joint[joint]
                          = _calculate_angle(triple[3], triple[2], triple[1])

\* an obtuse knee angle has been computed from a hip and an ankle at
\* different distances from the knee
C23_Witness ==
    /\ angles.calculated
    /\ "left_knee" \in DOMAIN angles.joint
    /\ angles.joint.left_knee.kind = "degrees"
    /\ angles.joint.left_knee.dot < 0
    /\ angles.joint.left_knee.dot * angles.joint.left_knee.dot
          < angles.joint.left_knee.norms
    /\ landmarks[LEFT_HIP].z # landmarks[LEFT_ANKLE].z

(***************************************************************************)
(* What the specification says of the form trend, the safety alerts and    *)
(* the strength progress, on the history the answered request has read.    *)
(***************************************************************************)
\* the reps a get_form_trends request of the user for the period reads
PeriodReps(user, days) ==
    {rep \in rep_logs : rep.user_id = user /\ rep.created_at >= now - days}

\* the number of daily data points of the period
DailyPoints(user, days) ==
    Cardinality({rep.created_at : rep \in PeriodReps(user, days)})

RECURSIVE SeriesSum(_, _, _)
\* the sum of the daily averages of the entries from..to of a series
SeriesSum(series, from, to) ==
    IF from > to THEN 0
    ELSE series[from].average_form_score + SeriesSum(series, from + 1, to)

\* the mean of the most recent 7 (or fewer) daily averages minus the mean of
\* the earliest 7 (or fewer), times the number of entries of a window, in
\* thousandths
RecentMinusEarly(series) ==
    LET window == IF Len(series) < 7 THEN Len(series) ELSE 7
    IN  SeriesSum(series, Len(series) - window + 1, Len(series))
            - SeriesSum(series, 1, window)

WindowSize(series) == IF Len(series) < 7 THEN Len(series) ELSE 7

\* the trend of a series of 2 or more daily averages, by the 0.1 thresholds
TrendByThreshold(series) ==
    IF RecentMinusEarly(series) > 100 * WindowSize(series) THEN "improving"
    ELSE IF RecentMinusEarly(series) < -100 * WindowSize(series) THEN "declining"
    ELSE "stable"

FormTrendsAnswered == response.op = "get_form_trends"

ScoredReps(user, days, date) ==
    {rep \in PeriodReps(user, days) : rep.created_at = date /\ ~rep.form_score.is_none}

RECURSIVE SumOfScores(_)
SumOfScores(reps) ==
    IF reps = {} THEN 0
    ELSE LET rep == CHOOSE rep \in reps : TRUE
         IN  rep.form_score.value + SumOfScores(reps \ {rep})

C25_DailyEntryCountsEveryScore ==
    (FormTrendsAnswered /\ response.body.trend # "no_data") =>
        \A i \in 1..Len(response.body.trend_data) :
            LET entry == response.body.trend_data[i]
                scored == ScoredReps(response.user, response.body.period_days, entry.date)
            IN  /\ entry.rep_count = Cardinality(scored)
                /\ scored # {} =>
                      entry.average_form_score
                          = round_half_even(10 * SumOfScores(scored), Cardinality(scored))

(***************************************************************************)
(* C26: the safety-alerts operation returns, for every user, an alert list *)
(* that holds a high-severity dangerous_form alert exactly when the user   *)
(* has a rep of rep_quality dangerous in the last 7 days, with             *)
(* total_alerts the length of the list and high_severity_count the number  *)
(* of its alerts of severity high.                                         *)
(***************************************************************************)
DangerousLately(user) ==
    \E rep \in rep_logs : /\ rep.user_id = user
                          /\ rep.rep_quality = "dangerous"
                          /\ rep.created_at >= now - 7

C26_AlertsAnswered ==
    response.op = "get_safety_alerts" =>
        /\ response.body.status_code = HTTP_200_OK
        /\ (\E i \in 1..Len(response.body.alerts) :
                /\ response.body.alerts[i].type = "dangerous_form"
                /\ response.body.alerts[i].severity = "high")
              <=> DangerousLately(response.user)
        /\ response.body.total_alerts = Len(response.body.alerts)
        /\ response.body.high_severity_count =
              Cardinality({i \in 1..Len(response.body.alerts) :
                              response.body.alerts[i].severity = "high"})

(***************************************************************************)
(* C27: the strength progress of an exercise is the percentage change from *)
(* the chronologically first logged weight to the chronologically last     *)
(* one, negative when the latest weight is the lower.                      *)
(***************************************************************************)
FirstLogged(reps) ==
    CHOOSE first \in reps : \A rep \in reps :
        \/ first.created_at < rep.created_at
        \/ first.created_at = rep.created_at /\ first.id <= rep.id

LastLogged(reps) ==
    CHOOSE last \in reps : \A rep \in reps :
        \/ last.created_at > rep.created_at
        \/ last.created_at = rep.created_at /\ last.id >= rep.id

\* the change from one weight to another, in tenths of a percent
PercentageChange(from, to) ==
    IF to >= from THEN round_half_even(1000 * (to - from), from)
    ELSE 0 - round_half_even(1000 * (from - to), from)

C27_ProgressFirstToLast ==
    response.op = "analyze_workout_session" =>
        LET reps == {rep \in rep_logs : rep.user_id = response.user}
        IN  Cardinality(reps) >= 2 =>
                /\ response.body.strength_progress.recorded
                /\ response.body.strength_progress.progress
                      = PercentageChange(FirstLogged(reps).weight_kg,
                                         LastLogged(reps).weight_kg)

(***************************************************************************)
(* C28: in the form-trends operation a series of 2 to 7 daily entries has  *)
(* the same entries in its early and its recent window, so its trend is    *)
(* stable whatever the scores; improving and declining are reported only   *)
(* of series of 8 or more entries.                                         *)
(***************************************************************************)
C28_FewEntriesAreStable ==
    (FormTrendsAnswered /\ response.body.trend # "no_data") =>
        /\ Len(response.body.trend_data) \in 2..7 => response.body.trend = "stable"
        /\ response.body.trend \in {"improving", "declining"} =>
              Len(response.body.trend_data) >= 8

\* a series of 7 days whose first and last daily averages differ by 0.75
\* has been answered stable
C28_Witness ==
    /\ FormTrendsAnswered
    /\ response.body.trend = "stable"
    /\ Len(response.body.trend_data) = 7
    /\ response.body.trend_data[1].average_form_score = 0
    /\ response.body.trend_data[7].average_form_score = 750

(***************************************************************************)
(* C29: rep records are isolated per user.  A request that names a rep     *)
(* reads, changes or removes only a rep the caller owns, and leaves the    *)
(* store as it was when it answers 404; and the owner of a stored rep is   *)
(* the user who logged it: log_rep stores the rep under its caller and no  *)
(* later step gives a stored rep another owner.                            *)
(***************************************************************************)
C29_RepsIsolatedPerUser ==
    [][/\ response'.op \in {"get_rep_detail", "update_rep", "delete_rep"} =>
             /\ \A rep \in rep_logs : rep.user_id # response'.user => rep \in rep_logs'
             /\ response'.body.status_code = HTTP_404_NOT_FOUND => rep_logs' = rep_logs
             /\ (response'.op # "delete_rep" /\ response'.body.status_code = HTTP_200_OK) =>
                   \E rep \in rep_logs : /\ rep.id = response'.body.rep.id
                                         /\ rep.user_id = response'.user
       /\ response'.op = "log_rep" =>
             /\ response'.body.rep.user_id = response'.user
             /\ rep_logs' = rep_logs \cup {response'.body.rep}
       /\ \A rep \in rep_logs : \A after \in rep_logs' :
             after.id = rep.id => after.user_id = rep.user_id]_vars

(***************************************************************************)
(* What is said of the chat analysis.  The levels are taken in the order   *)
(* critical, high, medium, low; a level occurs in a text when one of its   *)
(* keywords is a substring of the text.                                    *)
(***************************************************************************)
LevelOrder == <<"critical", "high", "medium", "low">>

KeywordsOf(level) ==
    injury_keywords[CHOOSE r \in 1..Len(injury_keywords) :
                        injury_keywords[r].risk_level = level].keywords

Occurs(level, text) ==
    \E k \in 1..Len(KeywordsOf(level)) : contains(text, KeywordsOf(level)[k])

AssignedLevel(message) ==
    LET text == lower(message)
        occurring == {i \in 1..Len(LevelOrder) : Occurs(LevelOrder[i], text)}
    IN  IF occurring = {} THEN "None"
        ELSE LevelOrder[CHOOSE i \in occurring : \A j \in occurring : i <= j]

\* the escalation_count of the session an exchange of the user starts from
LoadedEscalations(user_id) ==
    IF user_id # NoUserId /\ find(user_id) # {}
    THEN chat_sessions[CHOOSE i \in find(user_id) : TRUE].escalation_count
    ELSE 0

====
